---- MODULE Spec2Model ----
(***************************************************************************)
(* Model of data_store/sparseUtilizationList.py: the SparseUtilizationList *)
(* store, the loadSUL builder and the histogram queries.                   *)
(*                                                                         *)
(* Numbers: Python ints and floats (and numpy doubles) are modelled as     *)
(* exact rationals <<n, d>> in lowest terms with d > 0.  A Python true     *)
(* division is modelled by TrueDiv, which raises on a zero divisor.        *)
(* A dict is a function; its iteration order is its insertion order,       *)
(* which for the location dicts is the order of the interval source.       *)
(***************************************************************************)
EXTENDS Integers, Sequences, FiniteSets, TLC

\* ---------------------------------------------------------------- bounds
TimeStep == 5
MaxTick == 2
MaxIv == 2
MaxBins == 3
MaxNegBins == 2
MaxQT == 2

Locs == {"a", "b"}
Keys == {"k"}
Vals == {100}
Times == {TimeStep * t : t \in 0..MaxTick}

\* ------------------------------------------------------------- rationals
Abs(x) == IF x < 0 THEN -x ELSE x

RECURSIVE Gcd(_, _)
Gcd(a, b) == IF b = 0 THEN a ELSE Gcd(b, a % b)

Rat(n, d) ==
    LET g == Gcd(Abs(n), Abs(d))
        sg == IF d < 0 THEN -1 ELSE 1
    IN  <<(sg * n) \div g, (sg * d) \div g>>

RatInt(n) == <<n, 1>>
RatAdd(x, y) == Rat(x[1] * y[2] + y[1] * x[2], x[2] * y[2])
RatSub(x, y) == Rat(x[1] * y[2] - y[1] * x[2], x[2] * y[2])

\* A division that yields a value for a zero divisor instead of raising, as a
\* numpy scalar division does.
TrueDiv_silent(x, k) ==
    IF k = 0 THEN [err |-> "", v |-> RatInt(0)]
    ELSE [err |-> "", v |-> Rat(x[1], x[2] * k)]

\* Python's x / k: ZeroDivisionError when k = 0.
TrueDiv(x, k) ==
    IF k = 0 THEN [err |-> "ZeroDivisionError", v |-> RatInt(0)]
    ELSE [err |-> "", v |-> Rat(x[1], x[2] * k)]

\* ------------------------------------------------------------ dict tools
EmptyDict == [x \in {} |-> 0]
Put(f, k, v) == [x \in DOMAIN f \cup {k} |-> IF x = k THEN v ELSE f[x]]

\* ------------------------------------------- class SparseUtilizationList
\* keyOrder is the iteration (insertion) order of locationDict's keys.
NewSUL ==
    [locationDict |-> EmptyDict, keyOrder |-> <<>>, cLocationDict |-> EmptyDict]

setCLocation(self, loc, val) ==
    [self EXCEPT !.cLocationDict = Put(self.cLocationDict, loc, val)]

\* Stable insertion of one event into a sequence sorted by index.
RECURSIVE InsertByIndex(_, _)
InsertByIndex(sortedEvs, ev) ==
    IF sortedEvs = <<>> THEN <<ev>>
    ELSE LET n == Len(sortedEvs) IN
         IF sortedEvs[n].index <= ev.index THEN Append(sortedEvs, ev)
         ELSE Append(InsertByIndex(SubSeq(sortedEvs, 1, n - 1), ev), sortedEvs[n])

\* Python's sorted(list, key=index): a new, stably sorted list.
RECURSIVE sorted(_)
sorted(evs) ==
    IF evs = <<>> THEN <<>>
    ELSE InsertByIndex(sorted(SubSeq(evs, 1, Len(evs) - 1)), evs[Len(evs)])

\* sortAtLoc builds the sorted list and drops it: the stored list is left as
\* it was.  Reading locationDict[loc] raises KeyError for an unknown loc.
sortAtLoc(self, loc) ==
    IF loc \notin DOMAIN self.locationDict
    THEN [err |-> "KeyError", self |-> self]
    ELSE LET dropped == sorted(self.locationDict[loc])
         IN  [err |-> "", self |-> self]

\* calcCurrentUtil without the "+ last['util']" term.
calcCurrentUtil_noCarry(index, prior) ==
    LET last == IF prior = <<>>
                THEN [index |-> 0, counter |-> 0, util |-> RatInt(0)]
                ELSE prior[1]
    IN  RatInt((index - last.index) * last.counter)

\* prior is <<>> for None, <<event>> otherwise.
calcCurrentUtil(index, prior) ==
    LET last == IF prior = <<>>
                THEN [index |-> 0, counter |-> 0, util |-> RatInt(0)]
                ELSE prior[1]
    IN  RatAdd(RatInt((index - last.index) * last.counter), last.util)

setIntervalAtLocation(self, edgeUtilObj, location) ==
    LET known == location \in DOMAIN self.locationDict
        ld == IF known THEN self.locationDict
              ELSE Put(self.locationDict, location, <<>>)
    IN  [self EXCEPT
            !.locationDict = Put(ld, location, Append(ld[location], edgeUtilObj)),
            !.keyOrder = IF known THEN @ ELSE Append(@, location)]

\* ------------------------------------------------------ the interval source
MetricOpts ==
    {<<>>} \cup {<<[key |-> k, value |-> v]>> : k \in Keys, v \in Vals}

\* One yielded interval i with the record db[label]['intervals'][i.data] it
\* points to: enter/leave timestamps are the interval's begin and end.
IvOpts ==
    {[begin |-> b, end |-> e, metrics |-> m] :
        b \in Times, e \in Times, m \in MetricOpts}

WellFormed(iv) == iv.begin < iv.end

IvSeqs(n) ==
    UNION {[1..k -> {iv \in IvOpts : WellFormed(iv)}] : k \in 0..n}

LocOrders ==
    {o \in UNION {[1..k -> Locs] : k \in 0..Cardinality(Locs)} :
        \A i, j \in 1..Len(o) : i # j => o[i] # o[j]}

RECURSIVE Assign(_, _)
Assign(order, budget) ==
    IF order = <<>> THEN {<<>>}
    ELSE UNION {
           {<<[loc |-> Head(order), ivs |-> iv]>> \o rest :
               rest \in Assign(Tail(order), budget - Len(iv))} :
           iv \in IvSeqs(budget)}

\* db[label]['intervalIndexes']['locations'] with what iterOverlap yields for
\* each location, in the order it yields it.
BoundedInputs == UNION {Assign(o, MaxIv) : o \in LocOrders}

\* One location with the intervals [0,10) and [5,15), in that order.
ScenarioA ==
    <<[loc |-> "a",
       ivs |-> <<[begin |-> 0, end |-> 10, metrics |-> <<>>],
                 [begin |-> 5, end |-> 15, metrics |-> <<>>]>>]>>

\* One location with one interval [0,10) carrying the metric value 100.
ScenarioD ==
    <<[loc |-> "a",
       ivs |-> <<[begin |-> 0, end |-> 10,
                  metrics |-> <<[key |-> "k", value |-> 100]>>]>>]>>

Inputs == BoundedInputs \cup {ScenarioA, ScenarioD}

VARIABLES src, pc, li, ii, sul, preMetricValue, counter, err, db, res

vars == <<src, pc, li, ii, sul, preMetricValue, counter, err, db, res>>

\* ---------------------------------------------------------------- loadSUL
Frame ==
    [pc |-> pc, li |-> li, ii |-> ii, sul |-> sul,
     preMetricValue |-> preMetricValue, counter |-> counter, err |-> err]

Install(n) ==
    /\ pc' = n.pc
    /\ li' = n.li
    /\ ii' = n.ii
    /\ sul' = n.sul
    /\ preMetricValue' = n.preMetricValue
    /\ counter' = n.counter
    /\ err' = n.err

StartFrame ==
    [pc |-> "start", li |-> 1, ii |-> 1,
     sul |-> [intervals |-> NewSUL, metrics |-> EmptyDict],
     preMetricValue |-> EmptyDict, counter |-> 0, err |-> ""]

Raise(s, e) == [s EXCEPT !.pc = "failed", !.err = e]

\* The closure updateSULForInterval, from metric item number n on.
RECURSIVE updateSULForInterval(_, _, _, _)
updateSULForInterval(s, loc, event, n) ==
    IF n > Len(event.metrics) THEN s
    ELSE
    LET k == event.metrics[n].key
        value == event.metrics[n].value
        fresh == k \notin DOMAIN s.sul.metrics
        m0 == IF fresh THEN Put(s.sul.metrics, k, NewSUL) ELSE s.sul.metrics
        p0 == IF fresh
              THEN Put(s.preMetricValue, k, [Timestamp |-> 0, Value |-> 0])
              ELSE s.preMetricValue
        s0 == [s EXCEPT !.sul.metrics = m0, !.preMetricValue = p0]
        rate1 == TrueDiv(RatInt(value - p0[k].Value),
                         event.begin - p0[k].Timestamp)
        m1 == Put(m0, k, setIntervalAtLocation(m0[k],
                 [index |-> event.begin, counter |-> 0, util |-> rate1.v], loc))
        p1 == Put(p0, k, [Timestamp |-> event.begin, Value |-> value])
        s1 == [s EXCEPT !.sul.metrics = m1, !.preMetricValue = p1]
        rate2 == TrueDiv(RatInt(value - p1[k].Value),
                         event.end - p1[k].Timestamp)
        m2 == Put(m1, k, setIntervalAtLocation(m1[k],
                 [index |-> event.end, counter |-> 0, util |-> rate2.v], loc))
        p2 == Put(p1, k, [Timestamp |-> event.end, Value |-> value])
        s2 == [s EXCEPT !.sul.metrics = m2, !.preMetricValue = p2]
    IN  IF rate1.err # "" THEN Raise(s0, rate1.err)
        ELSE IF rate2.err # "" THEN Raise(s1, rate2.err)
        ELSE updateSULForInterval(s2, loc, event, n + 1)

\* Body of the inner for loop: one yielded interval.
AppendStep(s, input) ==
    LET loc == input[s.li].loc
        i == input[s.li].ivs[s.ii]
        a1 == setIntervalAtLocation(s.sul.intervals,
                [index |-> i.begin, counter |-> 1, util |-> RatInt(0)], loc)
        a2 == setIntervalAtLocation(a1,
                [index |-> i.end, counter |-> -1, util |-> RatInt(0)], loc)
        s1 == [s EXCEPT !.sul.intervals = a2, !.ii = s.ii + 1]
    IN  updateSULForInterval(s1, loc, i, 1)

\* for key in sul['metrics']: sortAtLoc(loc).  The first key that has no
\* list for loc raises.
MetricSortError(s, loc) ==
    IF \E k \in DOMAIN s.sul.metrics : sortAtLoc(s.sul.metrics[k], loc).err # ""
    THEN "KeyError" ELSE ""

SortStep(s, input) ==
    LET loc == input[s.li].loc
        r == sortAtLoc(s.sul.intervals, loc)
    IN  IF r.err # "" THEN Raise(s, r.err)
        ELSE IF MetricSortError(s, loc) # "" THEN Raise(s, MetricSortError(s, loc))
        ELSE [s EXCEPT !.sul.intervals = r.self, !.pc = "fold"]

\* The fold of events n..Len(evs); events before n are already folded.
RECURSIVE FoldFrom(_, _, _)
FoldFrom(evs, n, cnt) ==
    IF n > Len(evs) THEN [evs |-> evs, counter |-> cnt]
    ELSE LET c == cnt + evs[n].counter
             prior == IF n = 1 THEN <<>> ELSE <<evs[n - 1]>>
             u == calcCurrentUtil(evs[n].index, prior)
         IN  FoldFrom([evs EXCEPT ![n].counter = c, ![n].util = u], n + 1, c)

FoldStep(s, input) ==
    LET loc == input[s.li].loc
        f == FoldFrom(s.sul.intervals.locationDict[loc], 1, s.counter)
    IN  [s EXCEPT !.sul.intervals.locationDict[loc] = f.evs,
                  !.counter = f.counter,
                  !.pc = "snapshot"]

locStruct(evs) ==
    [index |-> [n \in 1..Len(evs) |-> evs[n].index],
     counter |-> [n \in 1..Len(evs) |-> evs[n].counter],
     util |-> [n \in 1..Len(evs) |-> evs[n].util]]

SnapshotStep(s, input) ==
    LET loc == input[s.li].loc
        iv == setCLocation(s.sul.intervals, loc,
                           locStruct(s.sul.intervals.locationDict[loc]))
        ms == [k \in DOMAIN s.sul.metrics |->
                 setCLocation(s.sul.metrics[k], loc,
                              locStruct(s.sul.metrics[k].locationDict[loc]))]
    IN  [s EXCEPT !.sul.intervals = iv, !.sul.metrics = ms,
                  !.li = s.li + 1, !.ii = 1, !.counter = 0,
                  !.pc = IF s.li + 1 > Len(input) THEN "publish" ELSE "iter"]

LogStep(s, input) ==
    [s EXCEPT !.pc = IF Len(input) = 0 THEN "publish" ELSE "iter"]

\* ---------------------------------------------------------------- queries
\* int(x) of a rational n/d: truncation toward zero.
Trunc(n, d) ==
    IF n >= 0 THEN n \div d ELSE -((-n) \div d)

\* criticalPts: int(i * rangePerBin + begin) for i in 0..bins-1, then end.
criticalPoints(bins, begin, end) ==
    [n \in 1..(bins + 1) |->
        IF n = bins + 1 THEN end
        ELSE Trunc((n - 1) * (end - begin) + begin * bins, bins)]

Max(S) == CHOOSE x \in S : \A y \in S : y <= x

\* The native kernel lib.calcHistogram: for every critical point the held
\* value of the step function, from the last event whose index <= the point
\* (the zero state when there is none).  It is handed the arrays of
\* cLocationDict and the position of their last element (length - 1).
calcHistogram(critical_points, cLoc) ==
    [n \in 1..Len(critical_points) |->
        LET c == critical_points[n]
            P == {p \in 1..Len(cLoc.index) : cLoc.index[p] <= c}
        IN  IF P = {}
            THEN [index |-> c, counter |-> 0, util |-> RatInt(0)]
            ELSE LET p == Max(P)
                 IN  [index |-> c,
                      counter |-> cLoc.counter[p],
                      util |-> RatAdd(cLoc.util[p],
                                 RatInt((c - cLoc.index[p]) * cLoc.counter[p]))]]

\* The loop of lines 125-133 from critical point n on; pretty is the list
\* built so far.
RECURSIVE prettyFrom(_, _, _, _)
prettyFrom(histogram, n, isInterval, pretty) ==
    IF n > Len(histogram) THEN [err |-> "", out |-> pretty]
    ELSE LET current == histogram[n]
             prev == histogram[n - 1]
             q == TrueDiv(RatSub(current.util, prev.util),
                          current.index - prev.index)
         IN  IF isInterval /\ q.err # "" THEN [err |-> q.err, out |-> <<>>]
             ELSE prettyFrom(histogram, n + 1, isInterval,
                     Append(pretty, IF isInterval THEN q.v ELSE current.util))

calcUtilizationForLocation(self, bins, begin, end, Location, isInterval) ==
    IF bins = 0 THEN [err |-> "ZeroDivisionError", out |-> <<>>]
    ELSE IF bins + 1 < 0 THEN [err |-> "ValueError", out |-> <<>>]
    ELSE IF bins + 1 = 0 THEN [err |-> "IndexError", out |-> <<>>]
    ELSE IF Location \notin DOMAIN self.locationDict
         THEN [err |-> "KeyError", out |-> <<>>]
    ELSE IF Location \notin DOMAIN self.cLocationDict
         THEN [err |-> "KeyError", out |-> <<>>]
    ELSE prettyFrom(calcHistogram(criticalPoints(bins, begin, end),
                                  self.cLocationDict[Location]),
                    2, isInterval, <<>>)

\* array[i] = array[i] + temp[i] for i in range(bins).
AddInto(array, temp, bins) ==
    [i \in 1..Len(array) |->
        IF i <= bins THEN RatAdd(array[i], temp[i]) ELSE array[i]]

\* The loop of calcUtilizationHistogram from location number n of the dict's
\* key order on.  On the first location array is bound to temp itself, and
\* the addition that follows runs on it too.
RECURSIVE histogramFrom(_, _, _, _, _, _, _, _)
histogramFrom(self, n, array, isFirst, bins, begin, end, isInterval) ==
    IF n > Len(self.keyOrder) THEN [err |-> "", out |-> array]
    ELSE LET temp == calcUtilizationForLocation(self, bins, begin, end,
                                                self.keyOrder[n], isInterval)
             a1 == IF isFirst THEN temp.out ELSE array
         IN  IF temp.err # "" THEN [err |-> temp.err, out |-> <<>>]
             ELSE histogramFrom(self, n + 1, AddInto(a1, temp.out, bins), FALSE,
                                bins, begin, end, isInterval)

calcUtilizationHistogram(self, bins, begin, end, isInterval) ==
    histogramFrom(self, 1, <<>>, TRUE, bins, begin, end, isInterval)

QBins == (0 - MaxNegBins)..MaxBins
QTimes == (0..MaxQT) \cup Times

NoResult ==
    [op |-> "none", bins |-> 0, begin |-> 0, end |-> 0, loc |-> "",
     isInterval |-> FALSE, err |-> "", out |-> <<>>]

\* ---------------------------------------------------------------- actions
Init ==
    /\ src \in Inputs
    /\ pc = StartFrame.pc
    /\ li = StartFrame.li
    /\ ii = StartFrame.ii
    /\ sul = StartFrame.sul
    /\ preMetricValue = StartFrame.preMetricValue
    /\ counter = StartFrame.counter
    /\ err = StartFrame.err
    /\ db = <<>>
    /\ res = NoResult

Log ==
    /\ pc = "start"
    /\ Install(LogStep(Frame, src))
    /\ UNCHANGED <<src, db, res>>

AppendInterval ==
    /\ pc = "iter"
    /\ ii <= Len(src[li].ivs)
    /\ Install(AppendStep(Frame, src))
    /\ UNCHANGED <<src, db, res>>

\* The interval source raises while it is iterated.
SourceFails ==
    /\ pc = "iter"
    /\ Install(Raise(Frame, "UpstreamIterationFailure"))
    /\ UNCHANGED <<src, db, res>>

SortLoc ==
    /\ pc = "iter"
    /\ ii > Len(src[li].ivs)
    /\ Install(SortStep(Frame, src))
    /\ UNCHANGED <<src, db, res>>

FoldLoc ==
    /\ pc = "fold"
    /\ Install(FoldStep(Frame, src))
    /\ UNCHANGED <<src, db, res>>

SnapshotLoc ==
    /\ pc = "snapshot"
    /\ Install(SnapshotStep(Frame, src))
    /\ UNCHANGED <<src, db, res>>

Publish ==
    /\ pc = "publish"
    /\ db' = <<sul>>
    /\ pc' = "done"
    /\ UNCHANGED <<src, li, ii, sul, preMetricValue, counter, err, res>>

Next ==
    \/ Log
    \/ AppendInterval
    \/ SourceFails
    \/ SortLoc
    \/ FoldLoc
    \/ SnapshotLoc
    \/ Publish

Spec == Init /\ [][Next]_vars

\* A caller of the published store asks for one location's histogram.  A query
\* changes nothing stored, so one query per run is followed.
QueryLocation ==
    /\ pc = "done"
    /\ res = NoResult
    /\ \E bins \in QBins, begin \in QTimes, end \in QTimes,
          Location \in Locs, isInterval \in BOOLEAN :
          LET r == calcUtilizationForLocation(db[1].intervals, bins, begin, end,
                                              Location, isInterval)
          IN  res' = [op |-> "calcUtilizationForLocation", bins |-> bins,
                      begin |-> begin, end |-> end, loc |-> Location,
                      isInterval |-> isInterval, err |-> r.err, out |-> r.out]
    /\ UNCHANGED <<src, pc, li, ii, sul, preMetricValue, counter, err, db>>

\* A caller of the published store asks for the histogram over all locations.
QueryHistogram ==
    /\ pc = "done"
    /\ res = NoResult
    /\ \E bins \in QBins, begin \in QTimes, end \in QTimes,
          isInterval \in BOOLEAN :
          LET r == calcUtilizationHistogram(db[1].intervals, bins, begin, end,
                                            isInterval)
          IN  res' = [op |-> "calcUtilizationHistogram", bins |-> bins,
                      begin |-> begin, end |-> end, loc |-> "",
                      isInterval |-> isInterval, err |-> r.err, out |-> r.out]
    /\ UNCHANGED <<src, pc, li, ii, sul, preMetricValue, counter, err, db>>

NextQ ==
    \/ Next
    \/ QueryLocation
    \/ QueryHistogram

SpecQ == Init /\ [][NextQ]_vars

\* ------------------------------------------------- the whole build, as one run
\* One step of loadSUL, chosen by the position in the code.
Step(s, input) ==
    CASE s.pc = "start" -> LogStep(s, input)
      [] s.pc = "iter" /\ s.ii <= Len(input[s.li].ivs) -> AppendStep(s, input)
      [] s.pc = "iter" /\ s.ii > Len(input[s.li].ivs) -> SortStep(s, input)
      [] s.pc = "fold" -> FoldStep(s, input)
      [] s.pc = "snapshot" -> SnapshotStep(s, input)
      [] OTHER -> s

\* loadSUL run on input up to line 206 or to the exception that ends it, with
\* an interval source that does not fail.
RECURSIVE RunAll(_, _)
RunAll(s, input) ==
    IF s.pc \in {"publish", "done", "failed"} THEN s
    ELSE RunAll(Step(s, input), input)

\* What a build leaves for location L: success or failure, and on success the
\* stored interval events and metric events of L.
Outcome(s, L) ==
    IF s.pc = "failed" THEN [ok |-> FALSE, intervals |-> <<>>, metrics |-> <<>>]
    ELSE [ok |-> TRUE,
          intervals |-> <<s.sul.intervals.locationDict[L],
                          s.sul.intervals.cLocationDict[L]>>,
          metrics |-> [k \in {x \in DOMAIN s.sul.metrics :
                                 L \in DOMAIN s.sul.metrics[x].locationDict} |->
                         <<s.sul.metrics[k].locationDict[L],
                           s.sul.metrics[k].cLocationDict[L]>>]]

\* ------------------------------------------------------------------ claims
\* The events appended for a location's intervals, in append order.
RECURSIVE RawEvents(_)
RawEvents(ivs) ==
    IF ivs = <<>> THEN <<>>
    ELSE RawEvents(SubSeq(ivs, 1, Len(ivs) - 1)) \o
         <<[index |-> ivs[Len(ivs)].begin, counter |-> 1],
           [index |-> ivs[Len(ivs)].end, counter |-> -1]>>

RECURSIVE SumDeltas(_, _)
SumDeltas(evs, n) == IF n = 0 THEN 0 ELSE SumDeltas(evs, n - 1) + evs[n].counter

IvsOf(loc) == src[CHOOSE n \in 1..Len(src) : src[n].loc = loc].ivs
Stored(loc) == db[1].intervals.locationDict[loc]
Snap(loc) == db[1].intervals.cLocationDict[loc]
Finished == pc = "done" /\ db # <<>>

\* The delta an event had when it was appended, read back from the folded
\* counters.
DeltaAt(evs, i) == evs[i].counter - (IF i = 1 THEN 0 ELSE evs[i - 1].counter)

\* C1: after loadSUL finishes, every location's stored interval events (the
\* list of locationDict and the index array of cLocationDict) are the appended
\* events in stable order of index: index values never decrease and events of
\* equal index keep their append order.
C1_StoredEventsSorted ==
    Finished =>
        \A loc \in DOMAIN db[1].intervals.locationDict :
            LET want == sorted(RawEvents(IvsOf(loc)))
                got == Stored(loc)
            IN  /\ Len(got) = Len(want)
                /\ \A i \in 1..Len(got) :
                      /\ got[i].index = want[i].index
                      /\ DeltaAt(got, i) = want[i].counter
                      /\ Snap(loc).index[i] = want[i].index
                /\ \A i \in 1..(Len(got) - 1) : got[i].index <= got[i + 1].index

\* The appended events of loc as sortAtLoc leaves them arranged.
Arranged(loc) ==
    LET raw == [n \in 1..(2 * Len(IvsOf(loc))) |->
                   [index |-> RawEvents(IvsOf(loc))[n].index,
                    counter |-> RawEvents(IvsOf(loc))[n].counter,
                    util |-> RatInt(0)]]
    IN  sortAtLoc([NewSUL EXCEPT !.locationDict = Put(EmptyDict, loc, raw)],
                  loc).self.locationDict[loc]

\* C2: after loadSUL finishes, at every position i of a location's stored
\* interval events, counter[i] is the sum of the original deltas of events
\* 1..i, and util[i] = util[i-1] + (index[i] - index[i-1]) * counter[i-1] with
\* util, counter and index all 0 before the first event; the arrays of
\* cLocationDict hold the same values.
C2_FoldIsPrefixSumAndIntegral ==
    Finished =>
        \A loc \in DOMAIN db[1].intervals.locationDict :
            LET evs == Stored(loc)
                orig == Arranged(loc)
            IN  /\ Len(evs) = Len(orig)
                /\ \A i \in 1..Len(evs) :
                      LET pi == IF i = 1 THEN 0 ELSE evs[i - 1].index
                          pcnt == IF i = 1 THEN 0 ELSE evs[i - 1].counter
                          pu == IF i = 1 THEN RatInt(0) ELSE evs[i - 1].util
                      IN  /\ evs[i].index = orig[i].index
                          /\ evs[i].counter = SumDeltas(orig, i)
                          /\ evs[i].util =
                                RatAdd(pu, RatInt((evs[i].index - pi) * pcnt))
                          /\ Snap(loc).counter[i] = evs[i].counter
                          /\ Snap(loc).util[i] = evs[i].util

\* C2 witness: a finished build holding a location with two overlapping
\* intervals, whose four events are folded in the order they are stored in and
\* whose integral is positive.
C2_Witness ==
    /\ Finished
    /\ \E loc \in DOMAIN db[1].intervals.locationDict :
          /\ Len(Stored(loc)) = 4
          /\ Stored(loc)[3].index < Stored(loc)[2].index
          /\ Stored(loc)[3].counter = 1
          /\ Stored(loc)[4].counter = 0
          /\ Stored(loc)[4].util[1] > 0

\* C3: building a location from well-formed intervals stores, at every event
\* whose index is unique, the number of intervals that contain that timestamp;
\* for [0,10) and [5,15) in that order the stored events read 0,5,10,15 with
\* counters 1,2,1,0.
C3_CounterIsConcurrency ==
    Finished =>
        /\ \A loc \in DOMAIN db[1].intervals.locationDict :
              \A i \in 1..Len(Stored(loc)) :
                  (\A j \in 1..Len(Stored(loc)) :
                        j # i => Stored(loc)[j].index # Stored(loc)[i].index)
                  => Stored(loc)[i].counter =
                        Cardinality({n \in 1..Len(IvsOf(loc)) :
                            /\ IvsOf(loc)[n].begin <= Stored(loc)[i].index
                            /\ Stored(loc)[i].index < IvsOf(loc)[n].end})
        /\ src = ScenarioA =>
              /\ [i \in 1..4 |-> Stored("a")[i].index] = <<0, 5, 10, 15>>
              /\ [i \in 1..4 |-> Stored("a")[i].counter] = <<1, 2, 1, 0>>

\* Sum over the locations n..Len(keyOrder) of the store of element i of the
\* per-location rate histogram.
RECURSIVE SumOverLocations(_, _, _, _, _, _)
SumOverLocations(self, n, i, bins, begin, end) ==
    IF n > Len(self.keyOrder) THEN RatInt(0)
    ELSE RatAdd(calcUtilizationForLocation(self, bins, begin, end,
                                           self.keyOrder[n], TRUE).out[i],
                SumOverLocations(self, n + 1, i, bins, begin, end))

\* C4: calcUtilizationHistogram(bins, begin, end), for bins >= 1 and a window
\* with end > begin over a store that has locations, returns bins elements, and
\* element i is the sum over the store's locations, each counted once, of
\* element i of that location's rate-mode histogram.
C4_HistogramIsSumOverLocations ==
    (/\ res.op = "calcUtilizationHistogram"
     /\ res.isInterval
     /\ res.err = ""
     /\ res.bins >= 1
     /\ res.end > res.begin
     /\ Len(db[1].intervals.keyOrder) >= 1)
    => /\ Len(res.out) = res.bins
       /\ \A i \in 1..res.bins :
             res.out[i] = SumOverLocations(db[1].intervals, 1, i,
                                           res.bins, res.begin, res.end)

\* C5: for bins >= 1, an integer window with end > begin and a location of the
\* store, calcUtilizationForLocation returns exactly bins elements without an
\* error, in rate mode and in raw mode.
C5_ReturnsBinsElements ==
    (/\ res.op = "calcUtilizationForLocation"
     /\ res.bins >= 1
     /\ res.end > res.begin
     /\ res.loc \in DOMAIN db[1].intervals.locationDict)
    => /\ res.err = ""
       /\ Len(res.out) = res.bins

\* C6: calcUtilizationForLocation with bins <= 0 or with end <= begin ends in
\* an error, in rate mode and in raw mode alike.
C6_InvalidArgumentsRaise ==
    (/\ res.op = "calcUtilizationForLocation"
     /\ (res.bins <= 0 \/ res.end <= res.begin))
    => res.err # ""

\* The metric timestamps of the input in processing order make a zero-width
\* gap: an entry at the last seen timestamp of its metric (0 before the first
\* sample), or a leave at its own entry.
RECURSIVE ZeroGapFrom(_, _, _, _)
ZeroGapFrom(input, n, m, last) ==
    IF n > Len(input) THEN FALSE
    ELSE IF m > Len(input[n].ivs) THEN ZeroGapFrom(input, n + 1, 1, last)
    ELSE LET iv == input[n].ivs[m] IN
         IF iv.metrics = <<>> THEN ZeroGapFrom(input, n, m + 1, last)
         ELSE \/ iv.begin = last
              \/ iv.end = iv.begin
              \/ ZeroGapFrom(input, n, m + 1, iv.end)

\* Every location of the source is appended, folded and snapshotted in s, with
\* the metric events it has.
AllBuilt(s) ==
    \A n \in 1..Len(src) :
        LET loc == src[n].loc IN
        /\ loc \in DOMAIN s.intervals.locationDict
        /\ loc \in DOMAIN s.intervals.cLocationDict
        /\ Len(s.intervals.locationDict[loc]) = 2 * Len(src[n].ivs)
        /\ s.intervals.locationDict[loc] # <<>>
        /\ s.intervals.locationDict[loc][Len(s.intervals.locationDict[loc])].counter = 0
        /\ s.intervals.cLocationDict[loc] = locStruct(s.intervals.locationDict[loc])
        /\ \A k \in DOMAIN s.metrics :
              loc \in DOMAIN s.metrics[k].locationDict =>
                  /\ loc \in DOMAIN s.metrics[k].cLocationDict
                  /\ s.metrics[k].cLocationDict[loc] =
                        locStruct(s.metrics[k].locationDict[loc])

\* C7: a build that fails leaves db[label] without a store, and a store is in
\* db[label] only when the build ran to its end with no error: every location
\* appended, folded and snapshotted, and no zero-width metric gap in the input.
C7_NoPartialStorePublished ==
    /\ pc = "failed" => db = <<>>
    /\ db # <<>> =>
          /\ pc = "done"
          /\ err = ""
          /\ AllBuilt(db[1])
          /\ ~ZeroGapFrom(src, 1, 1, 0)

\* C7 witness: the build failed on a division by zero in a later location,
\* after an earlier location was fully snapshotted, and db[label] has no store.
C7_Witness ==
    /\ pc = "failed"
    /\ err = "ZeroDivisionError"
    /\ li = 2
    /\ src[1].loc \in DOMAIN sul.intervals.cLocationDict
    /\ db = <<>>

\* C8: the build of a location does not depend on the other locations: what a
\* build that ends without a source failure leaves for location L (for a
\* failed build, the location it failed in) is what building L alone leaves.
C8_LocationsIndependent ==
    /\ Finished =>
          \A n \in 1..Len(src) :
              Outcome(Frame, src[n].loc)
                  = Outcome(RunAll(StartFrame, <<src[n]>>), src[n].loc)
    /\ (pc = "failed" /\ err # "UpstreamIterationFailure") =>
          Outcome(Frame, src[li].loc)
              = Outcome(RunAll(StartFrame, <<src[li]>>), src[li].loc)

\* C9: a location listed with zero intervals does not fail the build.
C9_EmptyLocationCompletes ==
    ~(/\ pc = "failed"
      /\ err = "KeyError"
      /\ src[li].ivs = <<>>)

\* C10: a metric last seen at (0, 0) that carries 100 on the interval [0,10)
\* gets one event at 0 and one at 10, both with counter 0 and rate 10.
C10_MetricRateIsTen ==
    (/\ Len(src) >= 1
     /\ Len(src[1].ivs) >= 1
     /\ src[1].ivs[1] = ScenarioD[1].ivs[1]
     /\ (li > 1 \/ ii > 1 \/ pc = "failed")
     /\ err # "UpstreamIterationFailure")
    => /\ "k" \in DOMAIN sul.metrics
       /\ src[1].loc \in DOMAIN sul.metrics["k"].locationDict
       /\ Len(sul.metrics["k"].locationDict[src[1].loc]) >= 2
       /\ sul.metrics["k"].locationDict[src[1].loc][1]
             = [index |-> 0, counter |-> 0, util |-> RatInt(10)]
       /\ sul.metrics["k"].locationDict[src[1].loc][2]
             = [index |-> 10, counter |-> 0, util |-> RatInt(10)]

====
